---- MODULE Spec2Model ----
(***************************************************************************)
(* Model of the Curiosity MAAS weather gateway (src/app.py): the in-memory *)
(* TTL cache, the upstream client, the normalizer, the weather endpoints,  *)
(* the AI brief endpoints with their LLM call and fallback formatter, the  *)
(* raw passthrough and the health endpoints.  Spec serves one request at a *)
(* time; ThreadSpec interleaves the handlers of two worker threads.        *)
(*                                                                         *)
(* Values.  A JSON / Python value is a record tagged by "type":            *)
(*   [type |-> "null"]                     None / null                     *)
(*   [type |-> "bool",  b |-> TRUE]        true / false                    *)
(*   [type |-> "num",   val |-> n]         a JSON integer                  *)
(*   [type |-> "float", val |-> n]         a Python float of value n       *)
(*   [type |-> "float", special |-> s]     float nan / inf / -inf          *)
(*   [type |-> "str",   chars |-> seq]     a string, cut into cells        *)
(*   [type |-> "list",  items |-> seq]     a JSON array                    *)
(*   [type |-> "obj",   f |-> fn]          a dict, fn maps keys to values  *)
(***************************************************************************)
EXTENDS Integers, Sequences, FiniteSets, TLC

VARIABLES
    now,      \* the wall clock read by time.time()
    CACHE,    \* the CACHE dict: key -> [t |-> stored_at, v |-> value]
    req,      \* per worker, the request it serves or served last
    call,     \* the function called directly last, its arguments and result
    lastSet   \* history: per cache key, the arguments of the last _set_cached

vars == <<now, CACHE, req, call, lastSet>>

\* ── Bounds ─────────────────────────────────────────────────────────────────
MaxExtra == 1        \* clock readings: 0 and TTL..TTL + MaxExtra

\* ── Python values ──────────────────────────────────────────────────────────
PyNone == [type |-> "null"]

PyBool(b) == [type |-> "bool", b |-> b]

PyNum(n) == [type |-> "num", val |-> n]

PyFloat(n) == [type |-> "float", val |-> n]

PyFloatSpecial(s) == [type |-> "float", special |-> s]

PyStr(cs) == [type |-> "str", chars |-> cs]

PyList(xs) == [type |-> "list", items |-> xs]

PyDict(fn) == [type |-> "obj", f |-> fn]

EmptyDict == PyDict(<<>>)

\* Python truth value testing, as used by "if not x" / "if x".
Truthy(x) ==
    CASE x.type = "null"  -> FALSE
      [] x.type = "bool"  -> x.b
      [] x.type = "num"   -> x.val # 0
      [] x.type = "float" -> IF "special" \in DOMAIN x THEN TRUE ELSE x.val # 0
      [] x.type = "str"   -> Len(x.chars) > 0
      [] x.type = "list"  -> Len(x.items) > 0
      [] x.type = "obj"   -> DOMAIN x.f # {}

\* dict.get(key): the value, or None when the key is missing.
DictGet(d, key) == IF key \in DOMAIN d.f THEN d.f[key] ELSE PyNone

\* ── float(x) ───────────────────────────────────────────────────────────────
Digits == {"0", "1", "2", "3", "4", "5", "6", "7", "8", "9"}

DigitVal(c) ==
    CASE c = "0" -> 0 [] c = "1" -> 1 [] c = "2" -> 2 [] c = "3" -> 3
      [] c = "4" -> 4 [] c = "5" -> 5 [] c = "6" -> 6 [] c = "7" -> 7
      [] c = "8" -> 8 [] c = "9" -> 9

RECURSIVE StripLeft(_)
StripLeft(cs) ==
    IF cs # <<>> /\ Head(cs) = " " THEN StripLeft(Tail(cs)) ELSE cs

RECURSIVE StripRight(_)
StripRight(cs) ==
    IF cs # <<>> /\ cs[Len(cs)] = " "
    THEN StripRight(SubSeq(cs, 1, Len(cs) - 1))
    ELSE cs

Strip(cs) == StripRight(StripLeft(cs))

RECURSIVE DigitsValue(_)
DigitsValue(cs) ==
    IF cs = <<>> THEN 0
    ELSE 10 * DigitsValue(SubSeq(cs, 1, Len(cs) - 1)) + DigitVal(cs[Len(cs)])

AllDigits(cs) == cs # <<>> /\ \A i \in 1..Len(cs) : cs[i] \in Digits

\* float(str) over the alphabet of digits, sign, blank and lower-case
\* letters: blanks are stripped, one sign is accepted, then either a run of
\* digits or one of the words nan / inf / infinity.  Anything else raises
\* ValueError, reported here as Raised.
Raised == [type |-> "raised"]

ParseFloat(cs) ==
    LET s    == Strip(cs)
        neg  == s # <<>> /\ Head(s) = "-"
        sgn  == s # <<>> /\ Head(s) \in {"-", "+"}
        body == IF sgn THEN Tail(s) ELSE s
    IN  IF AllDigits(body)
        THEN PyFloat(IF neg THEN 0 - DigitsValue(body) ELSE DigitsValue(body))
        ELSE IF body = <<"n", "a", "n">>
        THEN PyFloatSpecial("nan")
        ELSE IF body \in {<<"i", "n", "f">>,
                          <<"i", "n", "f", "i", "n", "i", "t", "y">>}
        THEN PyFloatSpecial(IF neg THEN "-inf" ELSE "inf")
        ELSE Raised

\* Python's float(x): numbers and booleans convert (bool is an int subclass),
\* strings are parsed, every other type raises TypeError.
FloatOf(x) ==
    CASE x.type = "num"   -> PyFloat(x.val)
      [] x.type = "float" -> x
      [] x.type = "bool"  -> PyFloat(IF x.b THEN 1 ELSE 0)
      [] x.type = "str"   -> ParseFloat(x.chars)
      [] OTHER            -> Raised

\* to_float without its try / except.
to_float_uncaught(x) == FloatOf(x)

\* to_float: float(x), with every exception turned into None.
to_float(x) == IF FloatOf(x) = Raised THEN PyNone ELSE FloatOf(x)

\* ── _normalize_maas ────────────────────────────────────────────────────────
SOURCE_TAG == "curiosity_rems_maas"

\* d.get raises AttributeError when d is not a dict (None, a list, ...).
NormalizeMaas(d) ==
    IF d.type # "obj" THEN Raised
    ELSE PyDict([
        source        |-> PyStr(<<SOURCE_TAG>>),
        sol           |-> DictGet(d, "sol"),
        earth_date    |-> DictGet(d, "terrestrial_date"),
        season        |-> DictGet(d, "season"),
        temperature_c |-> PyDict([
            min     |-> to_float(DictGet(d, "min_temp")),
            max     |-> to_float(DictGet(d, "max_temp")),
            min_gts |-> to_float(DictGet(d, "min_gts_temp")),
            max_gts |-> to_float(DictGet(d, "max_gts_temp"))]),
        pressure_pa   |-> to_float(DictGet(d, "pressure")),
        pressure_qual |-> DictGet(d, "pressure_string"),
        sunrise_local |-> DictGet(d, "sunrise"),
        sunset_local  |-> DictGet(d, "sunset"),
        uv_index      |-> DictGet(d, "local_uv_irradiance_index"),
        atmo_opacity  |-> DictGet(d, "atmo_opacity")])

\* ── Cache ──────────────────────────────────────────────────────────────────
TTL == 15 * 60

\* The instants at which the clock is read: 0 and the instants from TTL on,
\* so that entry ages below, at and above TTL all occur.
Clock == {0} \cup (TTL..(TTL + MaxExtra))

Pop(C, key) == [k \in DOMAIN C \ {key} |-> C[k]]

\* _get_cached that expires an entry already at age TTL.
GetCachedEarly(C, key, t) ==
    IF key \notin DOMAIN C
    THEN [ret |-> PyNone, cache |-> C]
    ELSE IF t - C[key].t >= TTL
    THEN [ret |-> PyNone, cache |-> Pop(C, key)]
    ELSE [ret |-> C[key].v, cache |-> C]

\* _get_cached with the age comparison turned round.
GetCachedInverted(C, key, t) ==
    IF key \notin DOMAIN C
    THEN [ret |-> PyNone, cache |-> C]
    ELSE IF t - C[key].t < TTL
    THEN [ret |-> PyNone, cache |-> Pop(C, key)]
    ELSE [ret |-> C[key].v, cache |-> C]

\* _get_cached at clock reading t: the value returned and the cache left.
GetCached(C, key, t) ==
    IF key \notin DOMAIN C
    THEN [ret |-> PyNone, cache |-> C]
    ELSE IF t - C[key].t > TTL
    THEN [ret |-> PyNone, cache |-> Pop(C, key)]
    ELSE [ret |-> C[key].v, cache |-> C]

\* _set_cached written with CACHE.setdefault: an entry already there stays.
SetCachedKeepFirst(C, key, value, t) ==
    IF key \in DOMAIN C THEN C
    ELSE [k \in DOMAIN C \cup {key} |->
            IF k = key THEN [t |-> t, v |-> value] ELSE C[k]]

\* _set_cached that updates an entry already there in place, CACHE[key]["v"]
\* = value, and leaves its timestamp.
SetCachedInPlace(C, key, value, t) ==
    [k \in DOMAIN C \cup {key} |->
        IF k # key THEN C[k]
        ELSE IF key \in DOMAIN C THEN [t |-> C[key].t, v |-> value]
        ELSE [t |-> t, v |-> value]]

\* _set_cached at clock reading t.
SetCached(C, key, value, t) ==
    [k \in DOMAIN C \cup {key} |->
        IF k = key THEN [t |-> t, v |-> value] ELSE C[k]]

\* ── Upstream client ────────────────────────────────────────────────────────
Sols == {-1, 5}          \* the sol path parameters requests carry

\* key = f"sol:{sol}"
SolKey(sol) == "sol:" \o ToString(sol)

SolPath(sol) == "/" \o ToString(sol)

Keys == {"latest"} \cup {SolKey(s) : s \in Sols}

\* Upstream records.  Variant "a" is the record of end-to-end scenario 1
\* (numeric strings); variant "b" is a partial record with a malformed
\* minimum temperature and no pressure.
RawRecord(sol, variant) ==
    IF variant = "a"
    THEN PyDict([sol              |-> PyNum(sol),
                 terrestrial_date |-> PyStr(<<"2024-03-01">>),
                 min_temp         |-> PyStr(<<"-", "7", "0">>),
                 max_temp         |-> PyStr(<<"-", "5">>),
                 pressure         |-> PyStr(<<"8", "7", "0">>)])
    ELSE PyDict([sol              |-> PyNum(sol),
                 terrestrial_date |-> PyStr(<<"2024-03-02">>),
                 min_temp         |-> PyStr(<<"-", "-">>),
                 max_temp         |-> PyNum(0),
                 season           |-> PyStr(<<"Month 7">>),
                 atmo_opacity     |-> PyStr(<<"Sunny">>)])

ErrorBody == PyDict([error |-> PyStr(<<"not found">>)])

\* The sol a path "/N" names.
PathSol(path) == CHOOSE s \in Sols : SolPath(s) = path

\* The records upstream may serve: for "/" the latest sol, 4100 or 4101.
UpstreamRecords(path) ==
    IF path = "/"
    THEN {RawRecord(4100, "a"), RawRecord(4101, "b")}
    ELSE {RawRecord(PathSol(path), "a")}

UpstreamOutcomes(path) ==
    {[kind |-> "fail"]} \cup
    {[kind |-> "json", data |-> d] :
        d \in UpstreamRecords(path)
               \cup {EmptyDict, ErrorBody, PyNone, PyList(<<PyNum(1)>>)}}

\* HTTP results of a handler.
Ok(body) == [status |-> 200, body |-> body]

HttpError(code) == [status |-> code]

\* _fetch_maas that swallows the RequestException and returns an empty body.
FetchMaasSwallow(up) ==
    IF up.kind = "fail" THEN [raised |-> FALSE, data |-> EmptyDict]
    ELSE [raised |-> FALSE, data |-> up.data]

\* _fetch_maas: the JSON body, or HTTPException(502) on a RequestException.
FetchMaas(up) ==
    IF up.kind = "fail" THEN [raised |-> TRUE, res |-> HttpError(502)]
    ELSE [raised |-> FALSE, data |-> up.data]

\* ── Weather endpoints ──────────────────────────────────────────────────────
\* weather_latest after a cache miss, once the upstream call has ended in
\* up, at clock reading t: the HTTP result and the cache left.  An exception
\* that is not an HTTPException (the AttributeError of _normalize_maas on a
\* body that is not a dict) ends the request with status 500.
LatestAfterFetch(C, up, t) ==
    LET fr == FetchMaas(up) IN
    IF fr.raised THEN [res |-> fr.res, cache |-> C]
    ELSE LET out == NormalizeMaas(fr.data) IN
         IF out = Raised THEN [res |-> HttpError(500), cache |-> C]
         ELSE [res |-> Ok(out), cache |-> SetCached(C, "latest", out, t)]

\* weather_by_sol without its "no data" check.
SolAfterFetchUnchecked(C, key, up, t) ==
    LET fr == FetchMaas(up) IN
    IF fr.raised THEN [res |-> fr.res, cache |-> C]
    ELSE LET out == NormalizeMaas(fr.data) IN
         IF out = Raised THEN [res |-> HttpError(500), cache |-> C]
         ELSE [res |-> Ok(out), cache |-> SetCached(C, key, out, t)]

\* weather_by_sol that stores its record under the key of weather_latest.
SolAfterFetchLatestKey(C, key, up, t) ==
    LET fr == FetchMaas(up) IN
    IF fr.raised THEN [res |-> fr.res, cache |-> C]
    ELSE IF ~Truthy(fr.data)
            \/ (fr.data.type = "obj" /\ Truthy(DictGet(fr.data, "error")))
    THEN [res |-> HttpError(404), cache |-> C]
    ELSE LET out == NormalizeMaas(fr.data) IN
         IF out = Raised THEN [res |-> HttpError(500), cache |-> C]
         ELSE [res |-> Ok(out), cache |-> SetCached(C, "latest", out, t)]

\* weather_by_sol after a cache miss, likewise.
SolAfterFetch(C, key, up, t) ==
    LET fr == FetchMaas(up) IN
    IF fr.raised THEN [res |-> fr.res, cache |-> C]
    ELSE IF ~Truthy(fr.data)
            \/ (fr.data.type = "obj" /\ Truthy(DictGet(fr.data, "error")))
    THEN [res |-> HttpError(404), cache |-> C]
    ELSE LET out == NormalizeMaas(fr.data) IN
         IF out = Raised THEN [res |-> HttpError(500), cache |-> C]
         ELSE [res |-> Ok(out), cache |-> SetCached(C, key, out, t)]

\* ── Raw passthrough and health endpoints ───────────────────────────────────
\* The sol query parameters /maas requests carry; 0 is also the default.
MaasSols == Sols \cup {0}

\* The path maas fetches for a sol that passed the ge=0 validation.
MaasPath(sol) == IF sol = 0 THEN "/" ELSE SolPath(sol)

\* maas that stores the body it forwards under the key of its path.
MaasAfterFetchCached(C, path, up, t) ==
    LET fr == FetchMaas(up) IN
    IF fr.raised THEN [res |-> fr.res, cache |-> C]
    ELSE IF ~Truthy(fr.data) THEN [res |-> HttpError(502), cache |-> C]
    ELSE [res |-> Ok(fr.data),
          cache |-> SetCached(C, IF path = "/" THEN "latest" ELSE SolKey(PathSol(path)),
                              fr.data, t)]

\* maas once the upstream call has ended in up: the HTTP result and the
\* cache left, which is the cache found.
MaasAfterFetch(C, path, up, t) ==
    LET fr == FetchMaas(up) IN
    IF fr.raised THEN [res |-> fr.res, cache |-> C]
    ELSE IF ~Truthy(fr.data) THEN [res |-> HttpError(502), cache |-> C]
    ELSE [res |-> Ok(fr.data), cache |-> C]

\* The body of /ping and /healthz.
OkBody == PyDict([ok |-> PyBool(TRUE)])

\* ── Text ───────────────────────────────────────────────────────────────────
RECURSIVE Concat(_)
Concat(cells) == IF cells = <<>> THEN "" ELSE Head(cells) \o Concat(Tail(cells))

RECURSIVE Join(_, _)
Join(parts, sep) ==
    IF parts = <<>> THEN ""
    ELSE IF Len(parts) = 1 THEN parts[1]
    ELSE parts[1] \o sep \o Join(Tail(parts), sep)

\* str(x) of a scalar, which is also what an f-string field without a format
\* gives.
StrOf(x) ==
    CASE x.type = "null"  -> "None"
      [] x.type = "bool"  -> IF x.b THEN "True" ELSE "False"
      [] x.type = "num"   -> ToString(x.val)
      [] x.type = "float" -> IF "special" \in DOMAIN x THEN x.special
                             ELSE ToString(x.val) \o ".0"
      [] x.type = "str"   -> Concat(x.chars)

\* format(x, ".1f") and format(x, ".0f") of a float.
Fmt1f(x) == IF "special" \in DOMAIN x THEN x.special ELSE ToString(x.val) \o ".0"

Fmt0f(x) == IF "special" \in DOMAIN x THEN x.special ELSE ToString(x.val)

\* ── _format_brief ──────────────────────────────────────────────────────────
\* Strings here are ASCII: EmDash and Degree stand for the characters
\* U+2014 and U+00B0 of the source's templates.
EmDash == "--"

Degree == "deg"

IsNone(x) == x.type = "null"

\* _format_brief that tests the pressure with "if press:".
BriefPartsPressTruthy(d) ==
    LET sol    == DictGet(d, "sol")
        day    == DictGet(d, "earth_date")
        t      == IF Truthy(DictGet(d, "temperature_c"))
                  THEN DictGet(d, "temperature_c") ELSE EmptyDict
        tmin   == DictGet(t, "min")
        tmax   == DictGet(t, "max")
        press  == DictGet(d, "pressure_pa")
        season == DictGet(d, "season")
        uv     == DictGet(d, "uv_index")
        sky    == DictGet(d, "atmo_opacity")
    IN  <<"Mars (Curiosity/REMS) " \o EmDash \o " Sol " \o StrOf(sol) \o " (" \o StrOf(day) \o ").">>
        \o (IF ~IsNone(tmin) /\ ~IsNone(tmax)
            THEN <<"Temp: " \o Fmt1f(tmin) \o Degree \o "C to " \o Fmt1f(tmax) \o Degree \o "C.">>
            ELSE IF ~IsNone(tmin) \/ ~IsNone(tmax)
            THEN <<"Temp: min " \o (IF ~IsNone(tmin) THEN StrOf(tmin) ELSE "?")
                   \o Degree \o "C, max " \o (IF ~IsNone(tmax) THEN StrOf(tmax) ELSE "?")
                   \o Degree \o "C.">>
            ELSE <<>>)
        \o (IF Truthy(press) THEN <<"Pressure: " \o Fmt0f(press) \o " Pa.">> ELSE <<>>)
        \o (IF Truthy(season) THEN <<"Season: " \o StrOf(season) \o ".">> ELSE <<>>)
        \o (IF Truthy(sky) THEN <<"Atmospheric opacity: " \o StrOf(sky) \o ".">> ELSE <<>>)
        \o (IF Truthy(uv) THEN <<"UV Index: " \o StrOf(uv) \o ".">> ELSE <<>>)

\* _format_brief that tests the temperature bounds with "if tmin and tmax".
BriefPartsTempTruthy(d) ==
    LET sol    == DictGet(d, "sol")
        day    == DictGet(d, "earth_date")
        t      == IF Truthy(DictGet(d, "temperature_c"))
                  THEN DictGet(d, "temperature_c") ELSE EmptyDict
        tmin   == DictGet(t, "min")
        tmax   == DictGet(t, "max")
        press  == DictGet(d, "pressure_pa")
        season == DictGet(d, "season")
        uv     == DictGet(d, "uv_index")
        sky    == DictGet(d, "atmo_opacity")
    IN  <<"Mars (Curiosity/REMS) " \o EmDash \o " Sol " \o StrOf(sol) \o " (" \o StrOf(day) \o ").">>
        \o (IF Truthy(tmin) /\ Truthy(tmax)
            THEN <<"Temp: " \o Fmt1f(tmin) \o Degree \o "C to " \o Fmt1f(tmax) \o Degree \o "C.">>
            ELSE IF Truthy(tmin) \/ Truthy(tmax)
            THEN <<"Temp: min " \o (IF ~IsNone(tmin) THEN StrOf(tmin) ELSE "?")
                   \o Degree \o "C, max " \o (IF ~IsNone(tmax) THEN StrOf(tmax) ELSE "?")
                   \o Degree \o "C.">>
            ELSE <<>>)
        \o (IF ~IsNone(press) THEN <<"Pressure: " \o Fmt0f(press) \o " Pa.">> ELSE <<>>)
        \o (IF Truthy(season) THEN <<"Season: " \o StrOf(season) \o ".">> ELSE <<>>)
        \o (IF Truthy(sky) THEN <<"Atmospheric opacity: " \o StrOf(sky) \o ".">> ELSE <<>>)
        \o (IF Truthy(uv) THEN <<"UV Index: " \o StrOf(uv) \o ".">> ELSE <<>>)

\* _format_brief up to its return: the list parts.
BriefParts(d) ==
    LET sol    == DictGet(d, "sol")
        day    == DictGet(d, "earth_date")
        t      == IF Truthy(DictGet(d, "temperature_c"))
                  THEN DictGet(d, "temperature_c") ELSE EmptyDict
        tmin   == DictGet(t, "min")
        tmax   == DictGet(t, "max")
        press  == DictGet(d, "pressure_pa")
        season == DictGet(d, "season")
        uv     == DictGet(d, "uv_index")
        sky    == DictGet(d, "atmo_opacity")
    IN  <<"Mars (Curiosity/REMS) " \o EmDash \o " Sol " \o StrOf(sol) \o " (" \o StrOf(day) \o ").">>
        \o (IF ~IsNone(tmin) /\ ~IsNone(tmax)
            THEN <<"Temp: " \o Fmt1f(tmin) \o Degree \o "C to " \o Fmt1f(tmax) \o Degree \o "C.">>
            ELSE IF ~IsNone(tmin) \/ ~IsNone(tmax)
            THEN <<"Temp: min " \o (IF ~IsNone(tmin) THEN StrOf(tmin) ELSE "?")
                   \o Degree \o "C, max " \o (IF ~IsNone(tmax) THEN StrOf(tmax) ELSE "?")
                   \o Degree \o "C.">>
            ELSE <<>>)
        \o (IF ~IsNone(press) THEN <<"Pressure: " \o Fmt0f(press) \o " Pa.">> ELSE <<>>)
        \o (IF Truthy(season) THEN <<"Season: " \o StrOf(season) \o ".">> ELSE <<>>)
        \o (IF Truthy(sky) THEN <<"Atmospheric opacity: " \o StrOf(sky) \o ".">> ELSE <<>>)
        \o (IF Truthy(uv) THEN <<"UV Index: " \o StrOf(uv) \o ".">> ELSE <<>>)

FormatBrief(d) == IF ~Truthy(d) THEN "No data." ELSE Join(BriefParts(d), " ")

\* ── _call_llm ──────────────────────────────────────────────────────────────
\* The three environment settings, each unset (None), empty or set.
EnvValues == {PyNone, PyStr(<<>>), PyStr(<<"set">>)}

IsSet(v) == v = PyStr(<<"set">>)

\* Environments: all three set, exactly one setting unset or empty, or
\* nothing set at all.
Envs ==
    {e \in [LLM_API_URL : EnvValues, LLM_API_KEY : EnvValues, LLM_MODEL : EnvValues] :
        \/ Cardinality({n \in DOMAIN e : ~IsSet(e[n])}) <= 1
        \/ \A n \in DOMAIN e : e[n] = PyNone}

LLMReply(content) ==
    PyDict([choices |-> PyList(<<PyDict([message |-> PyDict([content |-> content])])>>)])

\* What requests.post(...) can end in: a network error, a non-2xx status,
\* a 2xx response whose body is not JSON, or a 2xx response with a JSON body:
\* a chat completion, an error object, a completion whose content is null,
\* or a completion with no choices.
LLMOutcomes ==
    {[kind |-> "neterr"], [kind |-> "non2xx"], [kind |-> "notjson"]} \cup
    {[kind |-> "json", data |-> d] :
        d \in {LLMReply(PyStr(<<" ", "A cold sol.", " ">>)),
               PyDict([error |-> PyStr(<<"overloaded">>)]),
               LLMReply(PyNone),
               PyDict([choices |-> PyList(<<>>)])}}

\* data["choices"][0]["message"]["content"]: the value, or Raised when an
\* index or key lookup raises.
LLMContent(data) ==
    IF data.type # "obj" \/ "choices" \notin DOMAIN data.f THEN Raised
    ELSE LET choices == data.f["choices"] IN
    IF choices.type # "list" \/ Len(choices.items) = 0 THEN Raised
    ELSE LET first == choices.items[1] IN
    IF first.type # "obj" \/ "message" \notin DOMAIN first.f THEN Raised
    ELSE LET message == first.f["message"] IN
    IF message.type # "obj" \/ "content" \notin DOMAIN message.f THEN Raised
    ELSE message.f["content"]

\* str(data) of a JSON body: its rendering as text.
ReprOf(data) == [type |-> "str", repr |-> data]

\* The configuration check with "or" for "and".
LLMConfiguredAny(env) ==
    Truthy(env.LLM_API_URL) \/ Truthy(env.LLM_API_KEY) \/ Truthy(env.LLM_MODEL)

\* _call_llm up to the configuration check: TRUE when all three settings
\* are truthy, so that the function goes on to requests.post.
LLMConfigured(env) ==
    Truthy(env.LLM_API_URL) /\ Truthy(env.LLM_API_KEY) /\ Truthy(env.LLM_MODEL)

\* _call_llm without r.raise_for_status(): the error body of a non-2xx
\* response is read like a completion.
LLMTextUnchecked(llm) ==
    IF llm.kind \in {"neterr", "notjson"} THEN Raised
    ELSE IF llm.kind = "non2xx" THEN ReprOf(PyDict([error |-> PyStr(<<"overloaded">>)]))
    ELSE LET content == LLMContent(llm.data) IN
         IF content # Raised /\ content.type = "str"
         THEN PyStr(Strip(content.chars))
         ELSE ReprOf(llm.data)

\* _call_llm from requests.post on: the text returned, or Raised when an
\* exception leaves the function.
LLMText(llm) ==
    IF llm.kind \in {"neterr", "non2xx", "notjson"} THEN Raised
    ELSE LET content == LLMContent(llm.data) IN
         IF content # Raised /\ content.type = "str"
         THEN PyStr(Strip(content.chars))
         ELSE ReprOf(llm.data)

\* ── AI brief endpoints ─────────────────────────────────────────────────────
\* The try / except of both brief handlers, for the weather record d and
\* the outcome of _call_llm.
BriefResult(d, out) ==
    IF out # Raised
    THEN Ok([mode |-> "llm", text |-> out])
    ELSE Ok([mode |-> "fallback", text |-> PyStr(<<FormatBrief(d)>>)])

\* ── The gateway ────────────────────────────────────────────────────────────
\* A request is served in steps that end at its blocking network calls:
\* arrival up to the upstream call, the upstream reply up to the LLM call,
\* the LLM reply up to the response.
WeatherOps == {"weather_latest", "weather_by_sol"}

BriefOps == {"ai_brief_latest", "ai_brief_by_sol"}

NoRes == [status |-> 0]

NoEnv == [unset |-> TRUE]

NoReply == [kind |-> "none"]

NoCall == [op |-> "none"]

NoRow == [absent |-> TRUE]

\* env: the LLM settings in the process environment while a brief request
\* is served (NoEnv for the other requests, which never read them); t: the
\* clock reading at arrival; row: the local variable row of _get_cached
\* while a thread is inside that function.
NewRequest(op, key, path, env, t) ==
    [op |-> op, key |-> key, path |-> path, at |-> t, pc |-> "arrived",
     fetched |-> <<>>, row |-> NoRow,
     up |-> NoReply, weather |-> NoRes, env |-> env, llm |-> NoReply,
     llmCalls |-> 0, res |-> NoRes]

Idle == [NewRequest("none", "none", "none", NoEnv, 0) EXCEPT !.pc = "idle"]

Init ==
    /\ now = 0
    /\ CACHE = <<>>
    /\ req = [p \in {1} |-> Idle]
    /\ call = NoCall
    /\ lastSet = <<>>

\* The clock advances, between requests and while a network call is pending.
Tick ==
    \E t \in Clock :
        /\ t > now
        /\ now' = t
        /\ UNCHANGED <<CACHE, req, call, lastSet>>

\* A brief handler whose weather lookup sits inside the try block.
BriefOnWeatherCaught(wres, env) ==
    IF wres.status # 200
    THEN [pc |-> "done", res |-> BriefResult(PyNone, Raised), llmCalls |-> 0]
    ELSE IF LLMConfigured(env)
    THEN [pc |-> "llm", res |-> NoRes, llmCalls |-> 1]
    ELSE [pc |-> "done", res |-> BriefResult(wres.body, Raised), llmCalls |-> 0]

\* A brief handler from the result wres of its weather lookup up to its
\* next network call: an HTTPException of the lookup leaves the handler;
\* otherwise _call_llm either raises on incomplete settings, which selects
\* the fallback, or goes on to requests.post.
BriefOnWeather(wres, env) ==
    IF wres.status # 200
    THEN [pc |-> "done", res |-> wres, llmCalls |-> 0]
    ELSE IF LLMConfigured(env)
    THEN [pc |-> "llm", res |-> NoRes, llmCalls |-> 1]
    ELSE [pc |-> "done", res |-> BriefResult(wres.body, Raised), llmCalls |-> 0]

\* A weather lookup that calls _fetch_maas a second time after a 502.
AfterWeatherRetry(p, r, wres) ==
    IF wres.status = 502 /\ Len(r.fetched) = 1
    THEN req' = [req EXCEPT ![p] =
            [r EXCEPT !.pc = "fetch", !.fetched = Append(r.fetched, r.path)]]
    ELSE IF r.op \in WeatherOps
    THEN req' = [req EXCEPT ![p] =
            [r EXCEPT !.pc = "done", !.weather = wres, !.res = wres]]
    ELSE \E b \in {BriefOnWeather(wres, r.env)} :
         req' = [req EXCEPT ![p] =
            [r EXCEPT !.pc = b.pc, !.weather = wres, !.res = b.res,
                      !.llmCalls = b.llmCalls]]

\* The handler of request r goes on from the result wres of its weather
\* lookup: a weather handler returns it, a brief handler goes on as above.
AfterWeather(p, r, wres) ==
    IF r.op \in WeatherOps
    THEN req' = [req EXCEPT ![p] =
            [r EXCEPT !.pc = "done", !.weather = wres, !.res = wres]]
    ELSE \E b \in {BriefOnWeather(wres, r.env)} :
         req' = [req EXCEPT ![p] =
            [r EXCEPT !.pc = b.pc, !.weather = wres, !.res = b.res,
                      !.llmCalls = b.llmCalls]]

\* A request arrives: the handler runs _get_cached and, on a miss, issues
\* the upstream call.
Arrive(p, op, key, path, env) ==
    /\ req[p].pc \in {"idle", "done"}
    /\ \E g \in {GetCached(CACHE, key, now)} :
        /\ CACHE' = g.cache
        /\ IF Truthy(g.ret)
           THEN AfterWeather(p, NewRequest(op, key, path, env, now), Ok(g.ret))
           ELSE req' = [req EXCEPT ![p] =
                    [NewRequest(op, key, path, env, now) EXCEPT
                        !.pc = "fetch", !.fetched = <<path>>]]
    /\ UNCHANGED <<now, call, lastSet>>

weather_latest ==
    \E p \in DOMAIN req : Arrive(p, "weather_latest", "latest", "/", NoEnv)

weather_by_sol ==
    \E p \in DOMAIN req, sol \in Sols :
        Arrive(p, "weather_by_sol", SolKey(sol), SolPath(sol), NoEnv)

ai_brief_latest ==
    \E p \in DOMAIN req, env \in Envs :
        Arrive(p, "ai_brief_latest", "latest", "/", env)

ai_brief_by_sol ==
    \E p \in DOMAIN req, sol \in Sols, env \in Envs :
        Arrive(p, "ai_brief_by_sol", SolKey(sol), SolPath(sol), env)

\* The upstream call of a request ends; the handler goes on to the end of
\* its weather lookup.
upstream_reply ==
    \E p \in DOMAIN req :
        /\ req[p].pc = "fetch"
        /\ \E up \in UpstreamOutcomes(req[p].path) :
           \E a \in {IF req[p].key = "latest"
                     THEN LatestAfterFetch(CACHE, up, now)
                     ELSE SolAfterFetch(CACHE, req[p].key, up, now)} :
                /\ CACHE' = a.cache
                /\ AfterWeather(p, [req[p] EXCEPT !.up = up], a.res)
        /\ UNCHANGED <<now, call, lastSet>>

\* The LLM call of a brief request ends; the handler returns.
llm_reply ==
    \E p \in DOMAIN req :
        /\ req[p].pc = "llm"
        /\ \E llm \in LLMOutcomes :
            req' = [req EXCEPT ![p] =
                [req[p] EXCEPT !.pc = "done", !.llm = llm,
                    !.res = BriefResult(req[p].weather.body, LLMText(llm))]]
        /\ UNCHANGED <<now, CACHE, call, lastSet>>

\* /maas arrives: a sol below 0 is rejected with 422 by the ge=0 bound of
\* the query parameter before the handler runs; otherwise the handler issues
\* the upstream call for the path of the sol.
maas ==
    \E p \in DOMAIN req, sol \in MaasSols :
        /\ req[p].pc \in {"idle", "done"}
        /\ req' = [req EXCEPT ![p] =
                IF sol < 0
                THEN [NewRequest("maas", "none", "none", NoEnv, now) EXCEPT
                        !.pc = "done", !.res = HttpError(422)]
                ELSE [NewRequest("maas", "none", MaasPath(sol), NoEnv, now) EXCEPT
                        !.pc = "maas_fetch", !.fetched = <<MaasPath(sol)>>]]
        /\ UNCHANGED <<now, CACHE, call, lastSet>>

\* The upstream call of a /maas request ends; the handler returns.
maas_reply ==
    \E p \in DOMAIN req :
        /\ req[p].pc = "maas_fetch"
        /\ \E up \in UpstreamOutcomes(req[p].path) :
           \E a \in {MaasAfterFetch(CACHE, req[p].path, up, now)} :
                /\ CACHE' = a.cache
                /\ req' = [req EXCEPT ![p] =
                        [req[p] EXCEPT !.pc = "done", !.up = up, !.res = a.res]]
        /\ UNCHANGED <<now, call, lastSet>>

ping ==
    \E p \in DOMAIN req :
        /\ req[p].pc \in {"idle", "done"}
        /\ req' = [req EXCEPT ![p] =
                [NewRequest("ping", "none", "none", NoEnv, now) EXCEPT
                    !.pc = "done", !.res = Ok(OkBody)]]
        /\ UNCHANGED <<now, CACHE, call, lastSet>>

healthz ==
    \E p \in DOMAIN req :
        /\ req[p].pc \in {"idle", "done"}
        /\ req' = [req EXCEPT ![p] =
                [NewRequest("healthz", "none", "none", NoEnv, now) EXCEPT
                    !.pc = "done", !.res = Ok(OkBody)]]
        /\ UNCHANGED <<now, CACHE, call, lastSet>>

Next ==
    \/ Tick
    \/ weather_latest
    \/ weather_by_sol
    \/ ai_brief_latest
    \/ ai_brief_by_sol
    \/ upstream_reply
    \/ llm_reply
    \/ maas
    \/ maas_reply
    \/ ping
    \/ healthz

Spec == Init /\ [][Next]_vars

\* ── Handlers run by concurrent threads ─────────────────────────────────────
\* The handlers are plain "def" functions, which the framework runs in worker
\* threads: two requests interleave between any two statements.  A step of a
\* thread is one access to the shared dict or the clock: row = CACHE.get(key),
\* the age test on the row, CACHE.pop(key, None), and, when the upstream call
\* has ended, the store CACHE[key] = {...}.
ThreadInit ==
    /\ now = 0
    /\ CACHE = <<>>
    /\ req = [p \in {1, 2} |-> Idle]
    /\ call = NoCall
    /\ lastSet = <<>>

\* _get_cached line 26-28: row = CACHE.get(key); on "not row" the function
\* returns None and the handler issues the upstream call.
ThreadGet(p, op, key, path, env) ==
    /\ req[p].pc \in {"idle", "done"}
    /\ req' = [req EXCEPT ![p] =
            IF key \in DOMAIN CACHE
            THEN [NewRequest(op, key, path, env, now) EXCEPT
                    !.pc = "check", !.row = CACHE[key]]
            ELSE [NewRequest(op, key, path, env, now) EXCEPT
                    !.pc = "fetch", !.fetched = <<path>>]]
    /\ UNCHANGED <<now, CACHE, call, lastSet>>

\* The sol the concurrent requests for a specific sol carry.
ThreadSols == {5}

\* The LLM settings while the concurrent brief requests are served: none
\* set, so that a brief request ends with its weather lookup.
ThreadEnvs == {e \in Envs : \A n \in DOMAIN e : e[n] = PyNone}

thread_weather_latest ==
    \E p \in DOMAIN req : ThreadGet(p, "weather_latest", "latest", "/", NoEnv)

thread_ai_brief_latest ==
    \E p \in DOMAIN req, env \in ThreadEnvs :
        ThreadGet(p, "ai_brief_latest", "latest", "/", env)

thread_weather_by_sol ==
    \E p \in DOMAIN req, sol \in ThreadSols :
        ThreadGet(p, "weather_by_sol", SolKey(sol), SolPath(sol), NoEnv)

\* _get_cached line 29: the age test on the row read before.  A stale row
\* sends the thread to the pop; a fresh one is returned, and a truthy value
\* ends the weather lookup.
thread_check ==
    \E p \in DOMAIN req :
        /\ req[p].pc = "check"
        /\ IF now - req[p].row.t > TTL
           THEN req' = [req EXCEPT ![p] = [req[p] EXCEPT !.pc = "pop"]]
           ELSE IF Truthy(req[p].row.v)
           THEN AfterWeather(p, [req[p] EXCEPT !.row = NoRow], Ok(req[p].row.v))
           ELSE req' = [req EXCEPT ![p] =
                    [req[p] EXCEPT !.pc = "fetch", !.row = NoRow,
                                   !.fetched = <<req[p].path>>]]
        /\ UNCHANGED <<now, CACHE, call, lastSet>>

\* _get_cached line 30-31: CACHE.pop(key, None), whatever the dict holds
\* under the key by now; the function returns None and the handler issues
\* the upstream call.
thread_pop ==
    \E p \in DOMAIN req :
        /\ req[p].pc = "pop"
        /\ CACHE' = Pop(CACHE, req[p].key)
        /\ req' = [req EXCEPT ![p] =
                [req[p] EXCEPT !.pc = "fetch", !.row = NoRow,
                               !.fetched = <<req[p].path>>]]
        /\ UNCHANGED <<now, call, lastSet>>

ThreadNext ==
    \/ Tick
    \/ thread_weather_latest
    \/ thread_weather_by_sol
    \/ thread_ai_brief_latest
    \/ thread_check
    \/ thread_pop
    \/ upstream_reply

ThreadSpec == ThreadInit /\ [][ThreadNext]_vars

\* ── The cache functions called directly ────────────────────────────────────
CacheKeys == {"latest", SolKey(5)}

\* Values stored: a falsy one and a record.
CacheValues == {PyNum(0), NormalizeMaas(EmptyDict)}

CacheInit ==
    /\ now = 0
    /\ CACHE = <<>>
    /\ req = [p \in {1} |-> Idle]
    /\ call = NoCall
    /\ lastSet = <<>>

set_cached ==
    \E key \in CacheKeys, value \in CacheValues :
        /\ CACHE' = SetCached(CACHE, key, value, now)
        /\ call' = [op |-> "_set_cached", key |-> key, at |-> now, ret |-> PyNone]
        /\ lastSet' = [k \in DOMAIN lastSet \cup {key} |->
                          IF k = key THEN [t |-> now, v |-> value] ELSE lastSet[k]]
        /\ UNCHANGED <<now, req>>

get_cached ==
    \E key \in CacheKeys :
    \E g \in {GetCached(CACHE, key, now)} :
        /\ CACHE' = g.cache
        /\ call' = [op |-> "_get_cached", key |-> key, at |-> now, ret |-> g.ret]
        /\ UNCHANGED <<now, req, lastSet>>

CacheNext ==
    \/ Tick
    \/ set_cached
    \/ get_cached

CacheSpec == CacheInit /\ [][CacheNext]_vars

\* ── _normalize_maas called directly ────────────────────────────────────────
\* Values an upstream field can carry: null, a number, numeric strings
\* (plain and blank-padded), non-numeric strings, a boolean, a list.
FieldSamples ==
    {PyNone, PyNum(-70), PyStr(<<"-", "7", "0">>), PyStr(<<" ", "5", " ">>),
     PyStr(<<"a", "b", "c">>), PyStr(<<>>), PyBool(TRUE), PyList(<<>>)}

FewSamples == {PyNum(3), PyStr(<<"7", "-">>), PyBool(FALSE)}

\* The numeric fields of an input: any subset of them present, each with any
\* sample value.
NumericParts ==
    UNION {[D -> FieldSamples] : D \in SUBSET {"min_temp", "max_temp", "pressure"}}

GtsParts ==
    UNION {[D -> FewSamples] : D \in SUBSET {"min_gts_temp", "max_gts_temp"}}

\* The other fields of an input: none, all with their usual types, or some
\* with other types.
OtherParts ==
    {<<>>,
     [sol |-> PyNum(4100), terrestrial_date |-> PyStr(<<"2024-03-01">>),
      season |-> PyStr(<<"Month 7">>), pressure_string |-> PyStr(<<"Higher">>),
      sunrise |-> PyStr(<<"05:25">>), sunset |-> PyStr(<<"17:20">>),
      local_uv_irradiance_index |-> PyStr(<<"High">>),
      atmo_opacity |-> PyStr(<<"Sunny">>)],
     [sol |-> PyStr(<<"4100">>), season |-> PyList(<<>>), sunrise |-> PyNone,
      error |-> PyBool(TRUE)]}

NormInputs ==
    {PyDict(n @@ g @@ o) : n \in NumericParts, g \in GtsParts, o \in OtherParts}

NormInit ==
    /\ now = 0
    /\ CACHE = <<>>
    /\ req = [p \in {1} |-> Idle]
    /\ call \in {[op |-> "input", d |-> d, out |-> PyNone] : d \in NormInputs}
    /\ lastSet = <<>>

normalize_maas ==
    /\ call.op = "input"
    /\ call' = [op |-> "_normalize_maas", d |-> call.d, out |-> NormalizeMaas(call.d)]
    /\ UNCHANGED <<now, CACHE, req, lastSet>>

NormNext == normalize_maas

NormSpec == NormInit /\ [][NormNext]_vars

\* ── _format_brief called directly ──────────────────────────────────────────
\* Values of the numeric upstream fields: missing, zero, a numeric string and
\* a malformed string.
BriefNumSamples ==
    {PyNone, PyNum(0), PyStr(<<"-", "7", "0">>), PyStr(<<"x">>)}

\* Values of the text upstream fields: missing, empty and a word; the UV
\* index, whose type upstream does not fix, may also be the number zero.
BriefTextSamples == {PyNone, PyStr(<<>>), PyStr(<<"High">>)}

BriefUvSamples == BriefTextSamples \cup {PyNum(0)}

BriefHeads ==
    {<<>>, [sol |-> PyNum(4100), terrestrial_date |-> PyStr(<<"2024-03-01">>)]}

\* The records _format_brief receives: what _normalize_maas returns.
BriefInputs ==
    {NormalizeMaas(PyDict(h @@ n @@ x @@ u)) :
        h \in BriefHeads,
        n \in [{"min_temp", "max_temp", "pressure"} -> BriefNumSamples],
        x \in [{"season", "atmo_opacity"} -> BriefTextSamples],
        u \in {[local_uv_irradiance_index |-> v] : v \in BriefUvSamples}}

FormatInit ==
    /\ now = 0
    /\ CACHE = <<>>
    /\ req = [p \in {1} |-> Idle]
    /\ call \in {[op |-> "record", d |-> d, parts |-> <<>>, out |-> ""] :
                    d \in BriefInputs}
    /\ lastSet = <<>>

format_brief ==
    /\ call.op = "record"
    /\ call' = [op |-> "_format_brief", d |-> call.d,
                parts |-> BriefParts(call.d), out |-> FormatBrief(call.d)]
    /\ UNCHANGED <<now, CACHE, req, lastSet>>

FormatNext == format_brief

FormatSpec == FormatInit /\ [][FormatNext]_vars

\* ── Properties ─────────────────────────────────────────────────────────────
\* Worker p takes up a new request in this step.
ArrivalStep(p) ==
    /\ req[p].pc \in {"idle", "done"}
    /\ req'[p] # req[p]

\* The upstream call of worker p's request ends in this step.
ReplyStep(p) == req[p].pc = "fetch" /\ req'[p].pc # "fetch"

\* The cache after the step is the cache before it without key k.
Evicted(k) ==
    /\ DOMAIN CACHE' = DOMAIN CACHE \ {k}
    /\ \A j \in DOMAIN CACHE' : CACHE'[j] = CACHE[j]

\* All three LLM settings are present and non-empty.
EnvComplete(e) ==
    \A n \in {"LLM_API_URL", "LLM_API_KEY", "LLM_MODEL"} :
        e[n] # PyNone /\ e[n] # PyStr(<<>>)

\* C1 (CacheSpec).  Cache freshness: after _set_cached(key, v) at time T with
\* no later set for the key, _get_cached(key) at T' returns exactly v when
\* T' - T <= 900, and when T' - T > 900 it returns None and leaves no entry
\* for the key.
C1_CacheFreshness ==
    (call.op = "_get_cached" /\ call.key \in DOMAIN lastSet) =>
        LET s == lastSet[call.key] IN
        IF call.at - s.t <= 900
        THEN call.ret = s.v
        ELSE call.ret = PyNone /\ call.key \notin DOMAIN CACHE

\* A read at age exactly 900 that returned the value set.
C1_Witness ==
    /\ call.op = "_get_cached"
    /\ call.key \in DOMAIN lastSet
    /\ call.at - lastSet[call.key].t = 900
    /\ call.ret = lastSet[call.key].v

\* C2 (Spec).  With one request at a time, a request arriving while the
\* entry for its key has age <= 900 issues no upstream fetch and returns the
\* cached record, leaving the cache as it is; and a request that stores a
\* record has issued exactly one upstream fetch.  So two /weather/latest
\* requests within 900 seconds issue one fetch in total.
C2_FreshEntryServedWithoutFetch ==
    [][\A p \in DOMAIN req :
        LET r == req'[p]
            k == req'[p].key
        IN  /\ (ArrivalStep(p) /\ k \in DOMAIN CACHE /\ now - CACHE[k].t <= 900)
                => /\ r.fetched = <<>>
                   /\ r.pc # "fetch"
                   /\ r.weather = Ok(CACHE[k].v)
                   /\ (r.op \in WeatherOps => r.pc = "done" /\ r.res = Ok(CACHE[k].v))
                   /\ CACHE' = CACHE
            /\ (ReplyStep(p) /\ CACHE' # CACHE)
                => /\ r.fetched = <<r.path>>
                   /\ r.weather.status = 200
                   /\ CACHE'[k] = [t |-> now, v |-> r.weather.body]
       ]_vars

\* A /weather/latest request that arrived at age exactly 900 of the entry
\* and was answered with the cached record without a fetch.
C2_Witness ==
    \E p \in DOMAIN req :
        /\ req[p].op = "weather_latest"
        /\ req[p].pc = "done"
        /\ req[p].fetched = <<>>
        /\ "latest" \in DOMAIN CACHE
        /\ req[p].at - CACHE["latest"].t = 900
        /\ req[p].res = Ok(CACHE["latest"].v)

\* C3 (Spec).  GET /ai/brief/latest never ends in an error: every finished
\* request has a response {mode, text} with mode "llm" or "fallback".
C3_BriefLatestNeverErrors ==
    \A p \in DOMAIN req :
        (req[p].op = "ai_brief_latest" /\ req[p].pc = "done")
            => /\ req[p].res.status = 200
               /\ req[p].res.body.mode \in {"llm", "fallback"}

\* The LLM replied 2xx with a JSON body that holds a string at
\* choices[0].message.content.
WellFormedReply(llm) ==
    /\ llm.kind = "json"
    /\ llm.data.type = "obj"
    /\ "choices" \in DOMAIN llm.data.f
    /\ llm.data.f.choices.type = "list"
    /\ Len(llm.data.f.choices.items) > 0
    /\ "message" \in DOMAIN llm.data.f.choices.items[1].f
    /\ "content" \in DOMAIN llm.data.f.choices.items[1].f.message.f
    /\ llm.data.f.choices.items[1].f.message.f.content.type = "str"

\* C4 as stated (Spec).  For a brief request whose weather record was
\* obtained, every failure of the LLM step (missing configuration, network
\* error, non-2xx response, malformed response body) yields mode "fallback"
\* with the formatter's text for the record; mode "llm" occurs only when
\* none of these failures occurred; the request never ends in an error.
C4_AnyLLMFailureFallsBack ==
    \A p \in DOMAIN req :
        (req[p].op \in BriefOps /\ req[p].pc = "done" /\ req[p].weather.status = 200)
            => LET r      == req[p]
                   failed == \/ ~EnvComplete(r.env)
                             \/ r.llm.kind \in {"neterr", "non2xx", "notjson"}
                             \/ ~WellFormedReply(r.llm)
               IN  /\ r.res.status = 200
                   /\ failed => /\ r.res.body.mode = "fallback"
                                /\ r.res.body.text = PyStr(<<FormatBrief(r.weather.body)>>)
                   /\ r.res.body.mode = "llm" => ~failed

\* C4 as amended (Spec).  Missing configuration, a network error, a non-2xx
\* response and a body that is not JSON yield mode "fallback" with the
\* formatter's text; with complete settings every 2xx JSON body yields mode
\* "llm": the stripped content when the body has the completion shape, and
\* the text of the whole body when it has not; the request never ends in an
\* error.
C4_LLMFailureFallsBackButJsonIsLlm ==
    \A p \in DOMAIN req :
        (req[p].op \in BriefOps /\ req[p].pc = "done" /\ req[p].weather.status = 200)
            => LET r      == req[p]
                   failed == \/ ~EnvComplete(r.env)
                             \/ r.llm.kind \in {"neterr", "non2xx", "notjson"}
               IN  /\ r.res.status = 200
                   /\ failed => /\ r.res.body.mode = "fallback"
                                /\ r.res.body.text = PyStr(<<FormatBrief(r.weather.body)>>)
                   /\ ~failed => /\ r.llm.kind = "json"
                                 /\ r.res.body.mode = "llm"
                                 /\ WellFormedReply(r.llm) =>
                                        r.res.body.text.type = "str"
                                        /\ "chars" \in DOMAIN r.res.body.text
                                 /\ ~WellFormedReply(r.llm) =>
                                        r.res.body.text = ReprOf(r.llm.data)

\* A brief request whose LLM call ended in a non-2xx response and that
\* returned the fallback text.
C4_Witness ==
    \E p \in DOMAIN req :
        /\ req[p].op \in BriefOps
        /\ req[p].pc = "done"
        /\ req[p].llm.kind = "non2xx"
        /\ req[p].res.status = 200
        /\ req[p].res.body.mode = "fallback"

\* C5 (Spec).  A brief request served while one of the three LLM settings
\* is absent or empty issues no HTTP call to the LLM endpoint, and its
\* {mode, text} response has mode "fallback".
C5_UnconfiguredMeansFallbackNoCall ==
    \A p \in DOMAIN req :
        (req[p].op \in BriefOps /\ ~EnvComplete(req[p].env))
            => /\ req[p].llmCalls = 0
               /\ req[p].pc # "llm"
               /\ req[p].llm = NoReply
               /\ (req[p].pc = "done" /\ req[p].res.status = 200)
                    => req[p].res.body.mode = "fallback"

\* A finished brief request with exactly one setting empty, answered with
\* the fallback.
C5_Witness ==
    \E p \in DOMAIN req :
        /\ req[p].op \in BriefOps
        /\ req[p].pc = "done"
        /\ req[p].env.LLM_API_KEY = PyStr(<<>>)
        /\ req[p].env.LLM_API_URL = PyStr(<<"set">>)
        /\ req[p].env.LLM_MODEL = PyStr(<<"set">>)
        /\ req[p].res.status = 200
        /\ req[p].res.body.mode = "fallback"
        /\ req[p].llmCalls = 0

\* C6 (Spec).  A weather request whose upstream fetch fails ends with 502
\* and creates or replaces no cache entry; the only cache change a request
\* makes before its fetch is the eviction of the expired entry for its own
\* key; after the failure the key has no entry, and the next request for
\* the key fetches upstream again.
C6_FailedFetchIs502AndStoresNothing ==
    [][\A p \in DOMAIN req :
        LET r == req'[p]
            k == req'[p].key
        IN  /\ (ArrivalStep(p) /\ r.pc = "fetch")
                => \/ CACHE' = CACHE
                   \/ /\ k \in DOMAIN CACHE
                      /\ now - CACHE[k].t > 900
                      /\ Evicted(k)
            /\ (ReplyStep(p) /\ r.op \in WeatherOps /\ r.up.kind = "fail")
                => /\ r.pc = "done"
                   /\ r.res = HttpError(502)
                   /\ CACHE' = CACHE
                   /\ k \notin DOMAIN CACHE'
            /\ (ArrivalStep(p) /\ r.op \in WeatherOps \cup BriefOps
                    /\ k \notin DOMAIN CACHE)
                => r.pc = "fetch" /\ r.fetched = <<r.path>>
            /\ (ArrivalStep(p) /\ r.op \in WeatherOps \cup BriefOps
                    /\ req[p].pc = "done" /\ req[p].res.status = 502
                    /\ k = req[p].key)
                => r.pc = "fetch" /\ r.fetched = <<r.path>>
       ]_vars

\* A weather request that arrived after TTL had passed, whose fetch failed
\* and that ended with 502, its key without an entry.
C6_Witness ==
    \E p \in DOMAIN req :
        /\ req[p].op \in WeatherOps
        /\ req[p].pc = "done"
        /\ req[p].at > TTL
        /\ req[p].up.kind = "fail"
        /\ req[p].res.status = 502
        /\ req[p].key \notin DOMAIN CACHE

\* The upstream body is empty or an object with an error indication.
EmptyOrError(d) ==
    \/ d = PyNone
    \/ d = EmptyDict
    \/ d.type = "obj" /\ "error" \in DOMAIN d.f

\* C7 (Spec).  When /weather/{sol} has no fresh entry and the upstream body
\* for /{sol} is empty or an error object, the request ends with 404 and
\* nothing is stored under sol:<sol>, so the next request for that sol
\* fetches upstream again.
C7_NoDataIs404AndStoresNothing ==
    [][\A p \in DOMAIN req :
        LET r == req'[p]
            k == req'[p].key
        IN  /\ (ReplyStep(p) /\ r.op = "weather_by_sol" /\ r.up.kind = "json"
                    /\ EmptyOrError(r.up.data))
                => /\ r.pc = "done"
                   /\ r.res = HttpError(404)
                   /\ CACHE' = CACHE
                   /\ k \notin DOMAIN CACHE'
            /\ (ArrivalStep(p) /\ req[p].pc = "done" /\ req[p].res.status = 404
                    /\ k = req[p].key)
                => r.pc = "fetch" /\ r.fetched = <<r.path>>
       ]_vars

\* A /weather/{sol} request answered 404 on an upstream error object, with
\* nothing stored under its key.
C7_Witness ==
    \E p \in DOMAIN req :
        /\ req[p].op = "weather_by_sol"
        /\ req[p].pc = "done"
        /\ req[p].up = [kind |-> "json", data |-> ErrorBody]
        /\ req[p].res.status = 404
        /\ req[p].key \notin DOMAIN CACHE

\* C8 (Spec).  When the weather lookup inside /ai/brief/{sol} ends with 404
\* or 502, that error is the result of the brief request: no LLM call is
\* issued and no {mode, text} response is produced.
C8_BriefBySolPropagatesLookupError ==
    \A p \in DOMAIN req :
        (req[p].op = "ai_brief_by_sol" /\ req[p].weather.status \in {404, 502})
            => /\ req[p].pc = "done"
               /\ req[p].res = req[p].weather
               /\ "body" \notin DOMAIN req[p].res
               /\ req[p].llmCalls = 0
               /\ req[p].llm = NoReply

\* A /ai/brief/{sol} request with complete LLM settings that ended with the
\* 404 of its weather lookup.
C8_Witness ==
    \E p \in DOMAIN req :
        /\ req[p].op = "ai_brief_by_sol"
        /\ req[p].pc = "done"
        /\ EnvComplete(req[p].env)
        /\ req[p].weather.status = 404
        /\ req[p].res.status = 404

\* The output fields of _normalize_maas and the input field each is read from.
FieldMap ==
    [sol |-> "sol", earth_date |-> "terrestrial_date", season |-> "season",
     pressure_pa |-> "pressure", pressure_qual |-> "pressure_string",
     sunrise_local |-> "sunrise", sunset_local |-> "sunset",
     uv_index |-> "local_uv_irradiance_index", atmo_opacity |-> "atmo_opacity"]

TempMap ==
    [min |-> "min_temp", max |-> "max_temp",
     min_gts |-> "min_gts_temp", max_gts |-> "max_gts_temp"]

\* C9 (NormSpec).  For every JSON object, _normalize_maas does not raise and
\* returns a record with exactly the fixed field set, source equal to the
\* constant tag, and null in every field the input did not supply.
C9_NormalizeTotalAndFixedShape ==
    call.op = "_normalize_maas" =>
        /\ call.out # Raised
        /\ call.out.type = "obj"
        /\ DOMAIN call.out.f = DOMAIN FieldMap \cup {"source", "temperature_c"}
        /\ call.out.f.source = PyStr(<<"curiosity_rems_maas">>)
        /\ call.out.f.temperature_c.type = "obj"
        /\ DOMAIN call.out.f.temperature_c.f = DOMAIN TempMap
        /\ \A o \in DOMAIN FieldMap :
            FieldMap[o] \notin DOMAIN call.d.f => call.out.f[o] = PyNone
        /\ \A o \in DOMAIN TempMap :
            TempMap[o] \notin DOMAIN call.d.f => call.out.f.temperature_c.f[o] = PyNone

\* _normalize_maas applied to the empty object gave the all-null record.
C9_Witness ==
    /\ call.op = "_normalize_maas"
    /\ call.d = EmptyDict
    /\ call.out.type = "obj"
    /\ \A o \in DOMAIN FieldMap : call.out.f[o] = PyNone
    /\ \A o \in DOMAIN TempMap : call.out.f.temperature_c.f[o] = PyNone

\* A string is numeric: blanks around an optional sign and a run of digits.
SignedDigits(cs) ==
    LET s == Strip(cs)
        b == IF s # <<>> /\ s[1] \in {"-", "+"} THEN Tail(s) ELSE s
    IN  b # <<>> /\ \A i \in 1..Len(b) : b[i] \in Digits

SignedValue(cs) ==
    LET s == Strip(cs) IN
    IF s[1] = "-" THEN 0 - DigitsValue(Tail(s))
    ELSE IF s[1] = "+" THEN DigitsValue(Tail(s))
    ELSE DigitsValue(s)

\* The output the claim gives for a numeric field holding x (None when the
\* field is missing).
Degraded(x) ==
    IF x.type = "num" THEN PyFloat(x.val)
    ELSE IF x.type = "str" /\ SignedDigits(x.chars) THEN PyFloat(SignedValue(x.chars))
    ELSE PyNone

\* C10 (NormSpec).  Each of the five numeric fields is mapped on its own:
\* the output is the numeric value when the input is a number or a numeric
\* string, and null when it is missing, null or non-numeric, whatever the
\* other fields hold.
C10_NumericFieldsDegradeAlone ==
    call.op = "_normalize_maas" =>
        /\ \A o \in DOMAIN TempMap :
            call.out.f.temperature_c.f[o] = Degraded(DictGet(call.d, TempMap[o]))
        /\ call.out.f.pressure_pa = Degraded(DictGet(call.d, "pressure"))

\* The clause texts of the formatter's template.
HeaderText(d) ==
    "Mars (Curiosity/REMS) -- Sol " \o StrOf(d.f.sol) \o " (" \o StrOf(d.f.earth_date) \o ")."

\* One decimal / no decimal of a float with an integral value.
OneDecimal(x) == ToString(x.val) \o ".0"

NoDecimal(x) == ToString(x.val)

RangeText(lo, hi) ==
    "Temp: " \o OneDecimal(lo) \o "degC to " \o OneDecimal(hi) \o "degC."

MinMaxText(lo, hi) ==
    "Temp: min " \o (IF lo = PyNone THEN "?" ELSE OneDecimal(lo))
        \o "degC, max " \o (IF hi = PyNone THEN "?" ELSE OneDecimal(hi)) \o "degC."

\* The temperature clause as the three-way case on the two bounds.
TempClause(lo, hi) ==
    IF lo # PyNone /\ hi # PyNone THEN <<RangeText(lo, hi)>>
    ELSE IF lo # PyNone \/ hi # PyNone THEN <<MinMaxText(lo, hi)>>
    ELSE <<>>

\* The clauses after the header, where shown(x) decides whether the Season
\* and Atmospheric opacity clauses appear.
ClausesWhen(d, shown(_)) ==
    TempClause(d.f.temperature_c.f.min, d.f.temperature_c.f.max)
    \o (IF d.f.pressure_pa # PyNone
        THEN <<"Pressure: " \o NoDecimal(d.f.pressure_pa) \o " Pa.">> ELSE <<>>)
    \o (IF shown(d.f.season)
        THEN <<"Season: " \o StrOf(d.f.season) \o ".">> ELSE <<>>)
    \o (IF shown(d.f.atmo_opacity)
        THEN <<"Atmospheric opacity: " \o StrOf(d.f.atmo_opacity) \o ".">> ELSE <<>>)
    \o (IF Truthy(d.f.uv_index)
        THEN <<"UV Index: " \o StrOf(d.f.uv_index) \o ".">> ELSE <<>>)

NonNull(x) == x # PyNone

\* C11 as stated (FormatSpec).  _format_brief returns the single-space join
\* of the clauses header, Temp, Pressure, Season, Atmospheric opacity, UV
\* Index in that order; the header is always there; Pressure, Season and
\* Atmospheric opacity are there exactly when their field is non-null, UV
\* Index exactly when uv_index is truthy.
C11_ClausesWhenNonNull ==
    call.op = "_format_brief" =>
        call.out = Join(<<HeaderText(call.d)>> \o ClausesWhen(call.d, NonNull), " ")

\* C11 as amended (FormatSpec).  The same join and order, the header always
\* there, Pressure there exactly when pressure_pa is non-null, and Season,
\* Atmospheric opacity and UV Index each there exactly when the field is
\* truthy (neither null nor empty nor zero); a record with pressure null
\* yields no Pressure clause: its text is the join of the other clauses.
C11_ClausesWhenTruthy ==
    call.op = "_format_brief" =>
        /\ call.out = Join(<<HeaderText(call.d)>> \o ClausesWhen(call.d, Truthy), " ")
        /\ call.parts[1] = HeaderText(call.d)
        /\ call.d.f.pressure_pa = PyNone =>
              \A i \in 1..Len(call.parts) :
                 call.parts[i] \notin {"Pressure: " \o NoDecimal(PyFloat(v)) \o " Pa." :
                                          v \in {0, -70}}

\* A record with pressure 0.0 and an empty season, formatted with a Pressure
\* clause and without a Season clause.
C11_Witness ==
    /\ call.op = "_format_brief"
    /\ call.d.f.pressure_pa = PyFloat(0)
    /\ call.d.f.season = PyStr(<<>>)
    /\ call.d.f.temperature_c.f.min = PyNone
    /\ call.d.f.temperature_c.f.max = PyNone
    /\ call.d.f.atmo_opacity = PyStr(<<"High">>)
    /\ call.d.f.uv_index = PyNone
    /\ call.d.f.sol = PyNum(4100)
    /\ call.out = "Mars (Curiosity/REMS) -- Sol 4100 (2024-03-01). Pressure: 0 Pa. Atmospheric opacity: High."

\* Every text a temperature clause can have over the sampled bounds.
TempTexts ==
    {MinMaxText(lo, hi) : lo \in {PyNone, PyFloat(0), PyFloat(-70)},
                          hi \in {PyNone, PyFloat(0), PyFloat(-70)}}
    \cup {RangeText(lo, hi) : lo \in {PyFloat(0), PyFloat(-70)},
                              hi \in {PyFloat(0), PyFloat(-70)}}

\* C12 (FormatSpec).  The temperature clause, which follows the header when
\* it is there: both bounds non-null give the range form, exactly one gives
\* the min / max form with "?" for the missing bound, both null give no
\* temperature clause at all; a bound of 0 counts as present.
C12_TempClauseThreeWay ==
    call.op = "_format_brief" =>
        LET lo    == call.d.f.temperature_c.f.min
            hi    == call.d.f.temperature_c.f.max
            temps == {i \in 1..Len(call.parts) : call.parts[i] \in TempTexts}
        IN  /\ (lo # PyNone /\ hi # PyNone) =>
                  temps = {2} /\ call.parts[2] = RangeText(lo, hi)
            /\ ((lo = PyNone) # (hi = PyNone)) =>
                  temps = {2} /\ call.parts[2] = MinMaxText(lo, hi)
            /\ (lo = PyNone /\ hi = PyNone) => temps = {}

\* A record with minimum 0.0 and maximum -70.0, formatted in the range form.
C12_Witness ==
    /\ call.op = "_format_brief"
    /\ call.d.f.temperature_c.f.min = PyFloat(0)
    /\ call.d.f.temperature_c.f.max = PyFloat(-70)
    /\ Len(call.parts) >= 2
    /\ call.parts[2] = "Temp: 0.0degC to -70.0degC."

\* A value is a complete normalized record: the full fixed field set.
CompleteRecord(v) ==
    /\ v.type = "obj"
    /\ DOMAIN v.f = DOMAIN FieldMap \cup {"source", "temperature_c"}
    /\ v.f.temperature_c.type = "obj"
    /\ DOMAIN v.f.temperature_c.f = DOMAIN TempMap

\* The request of worker p has ended, its weather lookup having fetched a
\* record for key k.
FetchedRecord(p, k) ==
    /\ req[p].pc = "done"
    /\ req[p].key = k
    /\ req[p].fetched # <<>>
    /\ req[p].weather.status = 200

\* C13 (ThreadSpec).  With two concurrent requests, both may miss and both
\* fetch (the witness); in every interleaving a request that answers 200
\* returns a complete record, every store leaves under the key exactly the
\* record and the clock reading of that store, and once both requests have
\* ended with a fetched record for the same key the cache holds a whole
\* entry with the record of one of them.
C13_DuplicateFetchKeepsRecordsWhole ==
    /\ [](\A p \in DOMAIN req :
            (req[p].pc = "done" /\ req[p].weather.status = 200)
                => /\ CompleteRecord(req[p].weather.body)
                   /\ req[p].op \in WeatherOps => req[p].res = req[p].weather)
    /\ [](\A k \in Keys :
            (FetchedRecord(1, k) /\ FetchedRecord(2, k))
                => /\ k \in DOMAIN CACHE
                   /\ DOMAIN CACHE[k] = {"t", "v"}
                   /\ CACHE[k].v \in {req[1].weather.body, req[2].weather.body})
    /\ [][\A p \in DOMAIN req :
            (ReplyStep(p) /\ req'[p].weather.status = 200)
                => /\ req'[p].key \in DOMAIN CACHE'
                   /\ CACHE'[req'[p].key] = [t |-> now, v |-> req'[p].weather.body]
         ]_vars

\* Two /weather/latest requests that both arrived at time 0, both fetched
\* upstream and got different records; the cache holds the second worker's.
C13_Witness ==
    /\ FetchedRecord(1, "latest") /\ FetchedRecord(2, "latest")
    /\ req[1].at = 0 /\ req[2].at = 0
    /\ req[1].fetched = <<"/">> /\ req[2].fetched = <<"/">>
    /\ req[1].weather.body # req[2].weather.body
    /\ "latest" \in DOMAIN CACHE
    /\ CACHE["latest"].v = req[2].weather.body

\* C14 (ThreadSpec).  Whenever an entry leaves the cache, its age at that
\* moment is above 900: a fresh entry is never deleted.
C14_EvictionOnlyOfStaleEntries ==
    [][\A k \in DOMAIN CACHE :
        k \notin DOMAIN CACHE' => now - CACHE[k].t > 900]_vars

\* C16 (ThreadSpec).  In every interleaving each cache entry is whole, a
\* timestamp and a complete normalized record, and an entry that exists
\* changes only by a store of the request for its key, which replaces the
\* timestamp and the value together by the store's clock reading and
\* record; otherwise it stays as it is or is removed.
C16_EntriesWholeAndReplacedWhole ==
    /\ [](\A k \in DOMAIN CACHE :
            /\ DOMAIN CACHE[k] = {"t", "v"}
            /\ CACHE[k].t \in Clock
            /\ CompleteRecord(CACHE[k].v))
    /\ [][\A k \in DOMAIN CACHE \cap DOMAIN CACHE' :
            CACHE'[k] # CACHE[k]
                => \E p \in DOMAIN req :
                    /\ ReplyStep(p)
                    /\ req'[p].key = k
                    /\ req'[p].weather.status = 200
                    /\ CACHE'[k] = [t |-> now, v |-> req'[p].weather.body]
         ]_vars

\* Two overlapping /weather/latest requests with different records, where
\* the first worker's store at time TTL replaced the entry the second
\* worker had stored.
C16_Witness ==
    /\ FetchedRecord(1, "latest") /\ FetchedRecord(2, "latest")
    /\ req[1].at = 0 /\ req[2].at = 0
    /\ req[1].weather.body # req[2].weather.body
    /\ "latest" \in DOMAIN CACHE
    /\ CACHE["latest"] = [t |-> TTL, v |-> req[1].weather.body]

\* Key k has the same entry, or none, before and after the step.
SameEntry(k) ==
    /\ (k \in DOMAIN CACHE) = (k \in DOMAIN CACHE')
    /\ k \in DOMAIN CACHE => CACHE'[k] = CACHE[k]

AllKeys == DOMAIN CACHE \cup DOMAIN CACHE'

\* The records _normalize_maas gives for the JSON objects upstream can
\* answer a GET of path with.
NormalizedResponses(path) ==
    {NormalizeMaas(u.data) :
        u \in {o \in UpstreamOutcomes(path) : o.kind = "json" /\ o.data.type = "obj"}}

\* The integers over which the keys are compared.
KeyInts == (-2 .. 12) \cup {50, 4100}

\* C15 (Spec).  The entry under "latest" is the normalization of a response
\* to path "/", and the entry under "sol:<N>" that of a response to "/<N>"
\* for the same N; a store puts under the request's key the normalization
\* of the reply to the one path the request fetched; distinct integers give
\* distinct keys and none of them is "latest"; a request for sol N that is
\* answered 200 gets a record of a response to "/<N>", whose sol is N.
C15_KeyPathCorrespondence ==
    /\ [](\A a \in KeyInts :
            /\ SolKey(a) # "latest"
            /\ \A b \in KeyInts : SolKey(a) = SolKey(b) => a = b)
    /\ [](\A k \in DOMAIN CACHE :
            \/ k = "latest" /\ CACHE[k].v \in NormalizedResponses("/")
            \/ \E N \in Sols :
                /\ k = "sol:" \o ToString(N)
                /\ CACHE[k].v \in NormalizedResponses("/" \o ToString(N))
                /\ CACHE[k].v.f.sol = PyNum(N))
    /\ [](\A p \in DOMAIN req :
            (req[p].op \in {"weather_by_sol", "ai_brief_by_sol"}
                /\ req[p].weather.status = 200)
                => \E N \in Sols :
                    /\ req[p].path = "/" \o ToString(N)
                    /\ req[p].key = "sol:" \o ToString(N)
                    /\ req[p].weather.body \in NormalizedResponses("/" \o ToString(N))
                    /\ req[p].weather.body.f.sol = PyNum(N))
    /\ [][\A p \in DOMAIN req :
            LET r == req'[p] IN
            /\ (ReplyStep(p) /\ CACHE' # CACHE)
                => /\ r.op \in {"weather_latest", "ai_brief_latest"}
                        => r.key = "latest" /\ r.fetched = <<"/">>
                   /\ r.op \in {"weather_by_sol", "ai_brief_by_sol"}
                        => \E N \in Sols : /\ r.key = "sol:" \o ToString(N)
                                           /\ r.fetched = <<"/" \o ToString(N)>>
                   /\ r.up \in UpstreamOutcomes(r.fetched[1])
                   /\ CACHE'[r.key].v = NormalizeMaas(r.up.data)
                   /\ \A k \in AllKeys \ {r.key} : SameEntry(k)
            /\ (ArrivalStep(p) /\ r.op \in WeatherOps \cup BriefOps /\ r.fetched = <<>>)
                => /\ r.key \in DOMAIN CACHE
                   /\ r.weather = Ok(CACHE[r.key].v)
         ]_vars

\* A request for sol 5 answered from the cache with the record of sol 5,
\* while the cache also holds a record under "latest".
C15_Witness ==
    \E p \in DOMAIN req :
        /\ req[p].op = "weather_by_sol"
        /\ req[p].pc = "done"
        /\ req[p].fetched = <<>>
        /\ req[p].key = "sol:5"
        /\ req[p].res.status = 200
        /\ req[p].res.body.f.sol = PyNum(5)
        /\ "latest" \in DOMAIN CACHE
        /\ "sol:5" \in DOMAIN CACHE
        /\ CACHE["latest"].v # CACHE["sol:5"].v

\* C17 (Spec).  A request issues at most one upstream call and a brief
\* request at most one LLM call; when a call has ended, failed or not, the
\* request goes on without another call of that kind; a brief request that
\* finds a fresh entry issues no upstream call.
C17_SingleAttemptPerRequest ==
    /\ [](\A p \in DOMAIN req :
            /\ Len(req[p].fetched) <= 1
            /\ req[p].llmCalls <= 1
            /\ req[p].pc \in {"fetch", "maas_fetch"} => req[p].fetched = <<req[p].path>>
            /\ req[p].op \notin BriefOps => req[p].llmCalls = 0 /\ req[p].pc # "llm"
            /\ req[p].op \in {"ping", "healthz"} => req[p].fetched = <<>>)
    /\ [][\A p \in DOMAIN req :
            LET r == req'[p] IN
            /\ (req[p].pc \in {"fetch", "maas_fetch"} /\ r # req[p])
                => /\ r.pc \in {"done", "llm"}
                   /\ r.fetched = req[p].fetched
                   /\ r.up.kind = "fail" => r.pc = "done" /\ r.res = HttpError(502)
            /\ (req[p].pc = "llm" /\ r # req[p])
                => /\ r.pc = "done"
                   /\ r.fetched = req[p].fetched
                   /\ r.llmCalls = 1
            /\ (ArrivalStep(p) /\ r.op \in BriefOps /\ r.key \in DOMAIN CACHE
                    /\ now - CACHE[r.key].t <= 900)
                => r.fetched = <<>> /\ r.pc \in {"done", "llm"}
         ]_vars

\* A brief request that fetched once, called the LLM once, got a network
\* error and ended with the fallback.
C17_Witness ==
    \E p \in DOMAIN req :
        /\ req[p].op \in BriefOps
        /\ req[p].pc = "done"
        /\ req[p].fetched = <<req[p].path>>
        /\ req[p].llmCalls = 1
        /\ req[p].llm.kind = "neterr"
        /\ req[p].res.status = 200
        /\ req[p].res.body.mode = "fallback"

\* The records _normalize_maas gives for an upstream response that is empty
\* or carries an error indication.
NoDataRecords == {NormalizeMaas(EmptyDict), NormalizeMaas(ErrorBody)}

\* C18 (Spec).  No cache entry holds a record normalized from an upstream
\* response that was empty or carried an error indication.
C18_CachedRecordsComeFromData ==
    \A k \in DOMAIN CACHE : CACHE[k].v \notin NoDataRecords

\* C19 (Spec).  A step of a /weather/latest or /ai/brief/latest request
\* changes at most the entry under "latest"; a step of a /weather/{sol} or
\* /ai/brief/{sol} request at most the entry under "sol:<sol>"; the steps of
\* /maas, /ping and /healthz requests and the LLM step of a brief request
\* leave the cache as it is.
C19_FrameOnCache ==
    [][\A p \in DOMAIN req :
        LET r == req'[p] IN
        r # req[p] =>
            /\ r.op \in {"weather_latest", "ai_brief_latest"}
                => \A k \in AllKeys \ {"latest"} : SameEntry(k)
            /\ r.op \in {"weather_by_sol", "ai_brief_by_sol"}
                => \E N \in Sols :
                    /\ r.path = "/" \o ToString(N)
                    /\ \A k \in AllKeys \ {"sol:" \o ToString(N)} : SameEntry(k)
            /\ r.op \in {"maas", "ping", "healthz"} => CACHE' = CACHE
            /\ req[p].pc = "llm" => CACHE' = CACHE
      ]_vars

\* A /maas request that forwarded a record of path "/" while the cache
\* kept its entry for sol 5 and got none for "latest".
C19_Witness ==
    \E p \in DOMAIN req :
        /\ req[p].op = "maas"
        /\ req[p].pc = "done"
        /\ req[p].path = "/"
        /\ req[p].res.status = 200
        /\ "sol:5" \in DOMAIN CACHE
        /\ "latest" \notin DOMAIN CACHE

\* The paths and keys of the path convention, over the sols requests carry.
ConventionPaths == {"/"} \cup {"/" \o ToString(N) : N \in {n \in MaasSols : n >= 0}}

ConventionKeys == {"latest"} \cup {"sol:" \o ToString(N) : N \in {n \in MaasSols : n >= 0}}

\* C20 (Spec).  Every path fetched upstream is "/" or "/<N>" with N >= 0,
\* and no cache key is the key of a negative sol.
C20_PathsFollowConvention ==
    /\ \A p \in DOMAIN req :
        \A i \in 1..Len(req[p].fetched) : req[p].fetched[i] \in ConventionPaths
    /\ DOMAIN CACHE \subseteq ConventionKeys

====
